---- MODULE Spec2Model ----
(***************************************************************************)
(* fmplayer.player: the Spotify player, its two watcher loops and the      *)
(* backend callbacks, as one state machine.                                *)
(*                                                                         *)
(* Execution contexts (player.py):                                         *)
(*   main          Player.__init__ (blocks on LOGGED_IN_EVENT)             *)
(*   queue_watcher the playlist loop (lines 154-196)                       *)
(*   event_watcher the Redis pub/sub loop (lines 199-231)                  *)
(*   callback      the backend's own thread, which runs                    *)
(*                 on_connection_state_updated and on_track_of_end         *)
(* The contexts interleave at statement granularity: every action below is *)
(* one statement (or one backend call) of one context.                     *)
(***************************************************************************)
EXTENDS Integers, Sequences, FiniteSets, TLC

\* ------------------------------------------------------------------ bounds
\* longest playlist present in Redis when the watchers start
MaxQueue == 2
\* messages the subscription can hold unread when an external client publishes
MaxInbox == 1

\* ------------------------------------------------------- values and helpers
Uris == {"a", "b"}

NoTrack == 0

RECURSIVE SeqsUpTo(_, _)
SeqsUpTo(S, n) ==
    IF n = 0 THEN {<< >>}
    ELSE LET shorter == SeqsUpTo(S, n - 1)
         IN  shorter \cup {Append(s, x) : s \in {t \in shorter : Len(t) = n - 1}, x \in S}

IsPrefix(s, t) ==
    /\ Len(s) <= Len(t)
    /\ \A i \in 1..Len(s) : s[i] = t[i]

\* spotify.PlayerState, the value of session.player.state
PlayerStates == {"UNLOADED", "LOADED", "PLAYING", "PAUSED"}

\* spotify.ConnectionState, the value of session.connection.state
ConnectionStates == {"LOGGED_OUT", "LOGGED_IN"}

\* json.dumps({'event': ev, 'uri': uri}): the payload string, kept as the
\* structure a JSON parser recovers from it
JsonDumps(ev, uri) == [kind |-> "object", event |-> ev, uri |-> uri]

\* payloads an external client can put on the channel: the two control
\* commands, an unknown event, an object without "event", a JSON value that
\* is not an object, and a string that is not JSON at all
ExtPayloads ==
    { [kind |-> "object", event |-> "pause", uri |-> "none"],
      [kind |-> "object", event |-> "resume", uri |-> "none"],
      [kind |-> "object", event |-> "skip", uri |-> "none"],
      [kind |-> "object", event |-> "none", uri |-> "none"],
      [kind |-> "array", event |-> "none", uri |-> "none"],
      [kind |-> "invalid", event |-> "none", uri |-> "none"] }

\* a pub/sub envelope as pubsub.listen() yields it
Envelope(type, data) == [type |-> type, data |-> data]

SubscribeEnvelope ==
    Envelope("subscribe", [kind |-> "int", event |-> "none", uri |-> "none"])

\* redis.publish(channel, payload): delivered to the subscriber if there is one
Deliver(box, isSubscribed, payload) ==
    IF isSubscribed THEN Append(box, Envelope("message", payload)) ELSE box

VARIABLES
    \* threading.Event objects
    loggedIn,       \* LOGGED_IN_EVENT
    stopEvent,      \* STOP_EVENT
    \* backend (spotify session)
    connState,      \* session.connection.state
    state,          \* session.player.state
    libTrack,       \* track loaded in the playback engine: its play number, or NoTrack
    libPlaying,     \* the playback engine is delivering audio
    \* main
    mainPc,
    \* queue_watcher
    queue,          \* Redis list PLAYLIST_KEY
    qwPc,
    uri,            \* local variable uri
    \* event_watcher
    ewPc,
    subscribed,
    inbox,          \* envelopes not yet yielded by pubsub.listen()
    \* callback thread
    cbPc,
    cbTrack,        \* play number of the track whose end is being handled
    \* history
    enqueued,       \* the playlist as it was when the watchers started
    played,         \* URIs passed to Player.play, in call order
    chan,           \* payloads queue_watcher published, in order
    stopSetBy,      \* play number of the track whose callback set STOP_EVENT last
    waitObserved,   \* for each return of STOP_EVENT.wait(): stopSetBy at that time
    failStage,      \* where the last Player.play raised: "none", "resolve", "load", "play"
    ctlRequest      \* backend request made by the last Player.pause / Player.resume
                    \* call that returned: "pause", "play", "noop" when the call
                    \* made no request, "none" before the first call

vars == << loggedIn, stopEvent, connState, state, libTrack, libPlaying, mainPc,
           queue, qwPc, uri, ewPc, subscribed, inbox, cbPc, cbTrack,
           enqueued, played, chan, stopSetBy, waitObserved, failStage,
           ctlRequest >>

eventVars == << loggedIn, stopEvent >>
backendVars == << connState, state, libTrack, libPlaying >>
qwVars == << queue, qwPc, uri >>
ewVars == << ewPc, subscribed, inbox >>
cbVars == << cbPc, cbTrack >>
histVars == << enqueued, played, chan, stopSetBy, waitObserved, failStage,
               ctlRequest >>

Init ==
    /\ loggedIn = FALSE
    /\ stopEvent = FALSE
    /\ connState = "LOGGED_OUT"
    /\ state = "UNLOADED"
    /\ libTrack = NoTrack
    /\ libPlaying = FALSE
    /\ mainPc = "login_wait"
    /\ queue \in SeqsUpTo(Uris, MaxQueue)
    /\ qwPc = "check"
    /\ uri = "none"
    /\ ewPc = "subscribe"
    /\ subscribed = FALSE
    /\ inbox = << >>
    /\ cbPc = "idle"
    /\ cbTrack = NoTrack
    /\ enqueued = queue
    /\ played = << >>
    /\ chan = << >>
    /\ stopSetBy = NoTrack
    /\ waitObserved = << >>
    /\ failStage = "none"
    /\ ctlRequest = "none"

\* ------------------------------------------------------------ scheduling
\* Whether a context can take its next step in the current state. The two
\* watchers are two logically independent, concurrently running loops: one
\* loop being suspended (in STOP_EVENT.wait(), in gevent.sleep, in a Redis
\* call) never keeps the other from running.
Scheduled_OneThread(context) ==
    /\ context = "event_watcher" => qwPc # "wait"
    /\ context = "queue_watcher" => TRUE

Scheduled(context) == TRUE

\* ------------------------------------------------------- main and login
\* lines 97-99: LOGGED_IN_EVENT after the callback ran for connection state
\* cs: set when the backend reports LOGGED_IN, left alone otherwise
LatchAfterUpdate_Mirror(cs, flag) == cs = "LOGGED_IN"

LatchAfterUpdate(cs, flag) == IF cs = "LOGGED_IN" THEN TRUE ELSE flag

\* line 70: LOGGED_IN_EVENT.wait() returns once the flag is set
LoginWait_Skipped(flag) == TRUE

LoginWait(flag) == flag

\* on_connection_state_updated (lines 93-99): the backend changes the
\* connection state and fires the callback with the new state
on_connection_state_updated(cs) ==
    /\ cs # connState
    /\ connState' = cs
    /\ loggedIn' = LatchAfterUpdate(cs, loggedIn)
    /\ UNCHANGED << stopEvent, state, libTrack, libPlaying, mainPc >>
    /\ UNCHANGED << qwVars, ewVars, cbVars, histVars >>

\* Player.__init__ (lines 67-70): LOGGED_IN_EVENT.wait() returns, the player
\* is constructed and the two watchers are started
PlayerInit ==
    /\ mainPc = "login_wait"
    /\ LoginWait(loggedIn)
    /\ mainPc' = "running"
    /\ UNCHANGED << eventVars, backendVars, qwVars, ewVars, cbVars, histVars >>

\* ------------------------------------------------------------ Player.play
\* lines 127-128: the except clause evaluates 'Unable to play: {0}'.uri, a
\* str has no attribute uri, so the handler itself raises AttributeError,
\* which leaves Player.play and queue_watcher (neither catches it)
ExceptHandler_Logs == "publish_play"

ExceptHandler == "crashed"

\* lines 123-131, the effect of the try statement on STOP_EVENT: cleared in
\* the else clause (no exception), untouched when the body raised
PlayEpilogue_Finally(ok, flag) == FALSE

PlayEpilogue_Set(ok, flag) == IF ok THEN TRUE ELSE flag

PlayEpilogue(ok, flag) == IF ok THEN FALSE ELSE flag

\* the body of the try raised spotify.error.LibError or ValueError at `stage`
PlayRaise(stage) ==
    /\ qwPc' = ExceptHandler
    /\ failStage' = stage
    /\ stopEvent' = PlayEpilogue(FALSE, stopEvent)

\* line 124: self.session.get_track(uri).load()
PlayResolve(ok) ==
    /\ mainPc = "running"
    /\ qwPc = "play"
    /\ played' = Append(played, uri)
    /\ IF ok
       THEN /\ qwPc' = "play_load"
            /\ failStage' = "none"
            /\ UNCHANGED stopEvent
       ELSE PlayRaise("resolve")
    /\ UNCHANGED << loggedIn, backendVars, mainPc, queue, uri, ewVars, cbVars >>
    /\ UNCHANGED << enqueued, chan, stopSetBy, waitObserved, ctlRequest >>

\* line 125: self.session.player.load(track)
PlayLoad(ok) ==
    /\ qwPc = "play_load"
    /\ IF ok
       THEN /\ state' = "LOADED"
            /\ libTrack' = Len(played)
            /\ libPlaying' = FALSE
            /\ qwPc' = "play_play"
            /\ UNCHANGED << stopEvent, failStage >>
       ELSE /\ PlayRaise("load")
            /\ UNCHANGED << state, libTrack, libPlaying >>
    /\ UNCHANGED << loggedIn, connState, mainPc, queue, uri, ewVars, cbVars >>
    /\ UNCHANGED << enqueued, played, chan, stopSetBy, waitObserved, ctlRequest >>

\* line 126: self.session.player.play()
PlayPlay(ok) ==
    /\ qwPc = "play_play"
    /\ IF ok
       THEN /\ state' = "PLAYING"
            /\ libPlaying' = (libTrack # NoTrack)
            /\ qwPc' = "play_clear"
            /\ UNCHANGED << stopEvent, failStage >>
       ELSE /\ PlayRaise("play")
            /\ UNCHANGED << state, libPlaying >>
    /\ UNCHANGED << loggedIn, connState, libTrack, mainPc, queue, uri, ewVars, cbVars >>
    /\ UNCHANGED << enqueued, played, chan, stopSetBy, waitObserved, ctlRequest >>

\* lines 129-131: else: STOP_EVENT.clear()
PlayClear ==
    /\ qwPc = "play_clear"
    /\ stopEvent' = PlayEpilogue(TRUE, stopEvent)
    /\ qwPc' = "publish_play"
    /\ UNCHANGED << loggedIn, backendVars, mainPc, queue, uri, ewVars, cbVars >>
    /\ UNCHANGED histVars

\* ---------------------------------------------------------- queue_watcher
\* redis.lpop(PLAYLIST_KEY), line 174
LPop_Right(q) == [item |-> q[Len(q)], rest |-> SubSeq(q, 1, Len(q) - 1)]

LPop(q) == [item |-> Head(q), rest |-> Tail(q)]

\* lines 181-184
PlayMessage(u) == JsonDumps("play", u)

\* lines 191-194
EndMessage_CopyPaste(u) == JsonDumps("play", u)

EndMessage(u) == JsonDumps("end", u)

\* line 173: if redis.llen(PLAYLIST_KEY) > 0
QwCheck ==
    /\ mainPc = "running"
    /\ qwPc = "check"
    /\ qwPc' = IF Len(queue) > 0 THEN "pop" ELSE "sleep"
    /\ UNCHANGED << eventVars, backendVars, mainPc, queue, uri, ewVars, cbVars, histVars >>

\* line 174: uri = redis.lpop(PLAYLIST_KEY)
QwPop ==
    /\ qwPc = "pop"
    /\ uri' = LPop(queue).item
    /\ queue' = LPop(queue).rest
    /\ qwPc' = "play"
    /\ UNCHANGED << eventVars, backendVars, mainPc, ewVars, cbVars, histVars >>

\* lines 180-184: publish the play event
QwPublishPlay ==
    /\ qwPc = "publish_play"
    /\ chan' = Append(chan, PlayMessage(uri))
    /\ inbox' = Deliver(inbox, subscribed, PlayMessage(uri))
    /\ qwPc' = "wait"
    /\ UNCHANGED << eventVars, backendVars, mainPc, queue, uri, ewPc, subscribed, cbVars >>
    /\ UNCHANGED << enqueued, played, stopSetBy, waitObserved, failStage, ctlRequest >>

\* line 188: STOP_EVENT.wait() returns once the flag is set; it does not
\* clear the flag
QwWait ==
    /\ qwPc = "wait"
    /\ stopEvent
    /\ waitObserved' = Append(waitObserved, stopSetBy)
    /\ qwPc' = "publish_end"
    /\ UNCHANGED << eventVars, backendVars, mainPc, queue, uri, ewVars, cbVars >>
    /\ UNCHANGED << enqueued, played, chan, stopSetBy, failStage, ctlRequest >>

\* lines 190-194: publish the end event
QwPublishEnd ==
    /\ qwPc = "publish_end"
    /\ chan' = Append(chan, EndMessage(uri))
    /\ inbox' = Deliver(inbox, subscribed, EndMessage(uri))
    /\ qwPc' = "sleep"
    /\ UNCHANGED << eventVars, backendVars, mainPc, queue, uri, ewPc, subscribed, cbVars >>
    /\ UNCHANGED << enqueued, played, stopSetBy, waitObserved, failStage, ctlRequest >>

\* line 196: gevent.sleep(...), then the next iteration of while True
QwSleep ==
    /\ qwPc = "sleep"
    /\ qwPc' = "check"
    /\ UNCHANGED << eventVars, backendVars, mainPc, queue, uri, ewVars, cbVars, histVars >>

\* ------------------------------------------------ backend playback engine
\* session.player.pause() is session.player.play(False): the engine stops
\* delivering audio and session.player.state becomes PAUSED;
\* session.player.play() starts delivery of the loaded track (if any) and
\* session.player.state becomes PLAYING
BackendState(request) == IF request = "pause" THEN "PAUSED" ELSE "PLAYING"

BackendPlaying(request) == request = "play" /\ libTrack # NoTrack

\* ------------------------------------------- Player.pause / Player.resume
\* line 137
PauseGuard_Always(st) == TRUE

PauseGuard(st) == st = "PLAYING"

\* line 147
ResumeGuard_Always(st) == TRUE

ResumeGuard(st) == st = "PAUSED"

\* line 139: the backend method Player.pause calls
PauseRequest_Play == "play"

PauseRequest == "pause"

\* line 149: the backend method Player.resume calls
ResumeRequest_Pause == "pause"

ResumeRequest == "play"

\* line 137: if self.session.player.state == spotify.PlayerState.PLAYING
PauseCheck ==
    /\ Scheduled("event_watcher")
    /\ ewPc = "pause"
    /\ ewPc' = IF PauseGuard(state) THEN "pause_act" ELSE "listen"
    /\ ctlRequest' = IF PauseGuard(state) THEN ctlRequest ELSE "noop"
    /\ UNCHANGED << eventVars, backendVars, mainPc, qwVars, subscribed, inbox, cbVars >>
    /\ UNCHANGED << enqueued, played, chan, stopSetBy, waitObserved, failStage >>

\* lines 138-139: self.session.player.pause()
PauseAct ==
    /\ Scheduled("event_watcher")
    /\ ewPc = "pause_act"
    /\ state' = BackendState(PauseRequest)
    /\ libPlaying' = BackendPlaying(PauseRequest)
    /\ ctlRequest' = PauseRequest
    /\ ewPc' = "listen"
    /\ UNCHANGED << eventVars, connState, libTrack, mainPc, qwVars, subscribed, inbox, cbVars >>
    /\ UNCHANGED << enqueued, played, chan, stopSetBy, waitObserved, failStage >>

\* line 147: if self.session.player.state == spotify.PlayerState.PAUSED
ResumeCheck ==
    /\ Scheduled("event_watcher")
    /\ ewPc = "resume"
    /\ ewPc' = IF ResumeGuard(state) THEN "resume_act" ELSE "listen"
    /\ ctlRequest' = IF ResumeGuard(state) THEN ctlRequest ELSE "noop"
    /\ UNCHANGED << eventVars, backendVars, mainPc, qwVars, subscribed, inbox, cbVars >>
    /\ UNCHANGED << enqueued, played, chan, stopSetBy, waitObserved, failStage >>

\* lines 148-149: self.session.player.play()
ResumeAct ==
    /\ Scheduled("event_watcher")
    /\ ewPc = "resume_act"
    /\ state' = BackendState(ResumeRequest)
    /\ libPlaying' = BackendPlaying(ResumeRequest)
    /\ ctlRequest' = ResumeRequest
    /\ ewPc' = "listen"
    /\ UNCHANGED << eventVars, connState, libTrack, mainPc, qwVars, subscribed, inbox, cbVars >>
    /\ UNCHANGED << enqueued, played, chan, stopSetBy, waitObserved, failStage >>

\* ---------------------------------------------------------- event_watcher
\* lines 218-221: the events dictionary
Events_WithPlay == {"pause", "resume", "play"}

Events == {"pause", "resume"}

\* line 226: json.loads(item.get('data')) raises ValueError on a string that
\* is not JSON
JsonLoads(payload) ==
    IF payload.kind = "invalid"
    THEN [raised |-> TRUE, value |-> payload]
    ELSE [raised |-> FALSE, value |-> payload]

\* line 227: data.get('event'): the field, None ("none") when it is absent,
\* AttributeError when data is not a dict
GetEvent(data) ==
    IF data.kind = "object"
    THEN [raised |-> FALSE, value |-> data.event]
    ELSE [raised |-> TRUE, value |-> "none"]

\* lines 225-231: where the loop body leaves event_watcher for one envelope
Dispatch_Default(item) ==
    IF item.type # "message" THEN "listen"
    ELSE LET loaded == JsonLoads(item.data)
         IN  IF loaded.raised THEN "crashed"
             ELSE LET event == GetEvent(loaded.value)
                  IN  IF event.raised THEN "crashed"
                      ELSE IF event.value \in Events THEN event.value
                      ELSE "pause"

Dispatch(item) ==
    IF item.type # "message" THEN "listen"
    ELSE LET loaded == JsonLoads(item.data)
         IN  IF loaded.raised THEN "crashed"
             ELSE LET event == GetEvent(loaded.value)
                  IN  IF event.raised THEN "crashed"
                      ELSE IF event.value \in Events THEN event.value
                      ELSE "listen"

\* lines 215-216: pubsub.subscribe(channel); Redis answers with a subscribe
\* envelope
EwSubscribe ==
    /\ mainPc = "running"
    /\ Scheduled("event_watcher")
    /\ ewPc = "subscribe"
    /\ subscribed' = TRUE
    /\ inbox' = << SubscribeEnvelope >>
    /\ ewPc' = "listen"
    /\ UNCHANGED << eventVars, backendVars, mainPc, qwVars, cbVars, histVars >>

\* lines 223-231: one iteration of for item in pubsub.listen(), up to the
\* call of the selected Player method. An exception ends event_watcher:
\* nothing reads the subscription any more and its backlog is lost
EwListen ==
    /\ Scheduled("event_watcher")
    /\ ewPc = "listen"
    /\ inbox # << >>
    /\ ewPc' = Dispatch(Head(inbox))
    /\ inbox' = IF Dispatch(Head(inbox)) = "crashed" THEN << >> ELSE Tail(inbox)
    /\ subscribed' = (Dispatch(Head(inbox)) # "crashed")
    /\ UNCHANGED << eventVars, backendVars, mainPc, qwVars, cbVars, histVars >>

\* an external client publishes on the channel event_watcher listens to
\* (line 223 receives it)
ExtPublish(payload) ==
    /\ subscribed
    /\ Len(inbox) < MaxInbox
    /\ inbox' = Deliver(inbox, subscribed, payload)
    /\ UNCHANGED << eventVars, backendVars, mainPc, qwVars, ewPc, subscribed, cbVars, histVars >>

\* -------------------------------------------------------- on_track_of_end
\* lines 106-107: the playing track reached its end, the backend fires
\* END_OF_TRACK and the callback calls session.player.unload()
on_track_of_end_unload ==
    /\ cbPc = "idle"
    /\ libPlaying
    /\ libTrack # NoTrack
    /\ cbTrack' = libTrack
    /\ libTrack' = NoTrack
    /\ libPlaying' = FALSE
    /\ state' = "UNLOADED"
    /\ cbPc' = "set"
    /\ UNCHANGED << eventVars, connState, mainPc, qwVars, ewVars, histVars >>

\* lines 108-109: STOP_EVENT.set()
on_track_of_end_set ==
    /\ cbPc = "set"
    /\ stopEvent' = TRUE
    /\ stopSetBy' = cbTrack
    /\ cbPc' = "idle"
    /\ UNCHANGED << loggedIn, backendVars, mainPc, qwVars, ewVars, cbTrack >>
    /\ UNCHANGED << enqueued, played, chan, waitObserved, failStage, ctlRequest >>

\* ---------------------------------------------------------- specification
Next ==
    \/ \E cs \in ConnectionStates : on_connection_state_updated(cs)
    \/ PlayerInit
    \/ QwCheck
    \/ QwPop
    \/ \E ok \in BOOLEAN : PlayResolve(ok)
    \/ \E ok \in BOOLEAN : PlayLoad(ok)
    \/ \E ok \in BOOLEAN : PlayPlay(ok)
    \/ PlayClear
    \/ QwPublishPlay
    \/ QwWait
    \/ QwPublishEnd
    \/ QwSleep
    \/ EwSubscribe
    \/ EwListen
    \/ \E payload \in ExtPayloads : ExtPublish(payload)
    \/ PauseCheck
    \/ PauseAct
    \/ ResumeCheck
    \/ ResumeAct
    \/ on_track_of_end_unload
    \/ on_track_of_end_set

Spec == Init /\ [][Next]_vars

\* The same system when every play attempt succeeds and no external client
\* publishes: the watchers are running greenlets and take their next step,
\* the backend completes the login and fires END_OF_TRACK for a track that
\* is playing, and the callback, once started, runs to its end.
LiveNext ==
    \/ \E cs \in ConnectionStates : on_connection_state_updated(cs)
    \/ PlayerInit
    \/ QwCheck
    \/ QwPop
    \/ PlayResolve(TRUE)
    \/ PlayLoad(TRUE)
    \/ PlayPlay(TRUE)
    \/ PlayClear
    \/ QwPublishPlay
    \/ QwWait
    \/ QwPublishEnd
    \/ QwSleep
    \/ EwSubscribe
    \/ EwListen
    \/ on_track_of_end_unload
    \/ on_track_of_end_set

LiveFairness ==
    /\ WF_vars(on_connection_state_updated("LOGGED_IN"))
    /\ WF_vars(PlayerInit)
    /\ WF_vars(QwCheck)
    /\ WF_vars(QwPop)
    /\ WF_vars(PlayResolve(TRUE))
    /\ WF_vars(PlayLoad(TRUE))
    /\ WF_vars(PlayPlay(TRUE))
    /\ WF_vars(PlayClear)
    /\ WF_vars(QwPublishPlay)
    /\ WF_vars(QwWait)
    /\ WF_vars(QwPublishEnd)
    /\ WF_vars(QwSleep)
    /\ WF_vars(EwSubscribe)
    /\ WF_vars(EwListen)
    /\ WF_vars(on_track_of_end_unload)
    /\ WF_vars(on_track_of_end_set)

LiveSpec == Init /\ [][LiveNext]_vars /\ LiveFairness

\* ------------------------------------------------------------------ claims
\* the URI popped and not yet passed to Player.play
Pending == IF qwPc = "play" THEN << uri >> ELSE << >>

\* number of entries of a sequence of payloads with the given event
RECURSIVE CountEvent(_, _)
CountEvent(seq, ev) ==
    IF seq = << >> THEN 0
    ELSE (IF Head(seq).event = ev THEN 1 ELSE 0) + CountEvent(Tail(seq), ev)

\* C1: the URIs passed to Player.play are, in every state, a prefix of the
\* playlist as it was enqueued: FIFO order, none skipped, none played twice
\* (what was played, what is in hand and what is still queued make up the
\* enqueued playlist exactly).
C1_PlayedIsPrefixOfEnqueued ==
    /\ IsPrefix(played, enqueued)
    /\ played \o Pending \o queue = enqueued

C1_Witness ==
    /\ Len(played) = 2
    /\ played[1] # played[2]
    /\ queue = << >>

\* C2: when every play attempt succeeds and no pause is issued, under every
\* interleaving of the end-of-track callback with queue_watcher, eventually
\* the queue is empty and every enqueued URI has had its "play" and then its
\* "end" event published.
C2_EveryTrackPlaysAndEnds ==
    <>( /\ queue = << >>
        /\ Len(chan) = 2 * Len(enqueued)
        /\ \A i \in 1..Len(enqueued) :
              /\ chan[2 * i - 1] = [kind |-> "object", event |-> "play", uri |-> enqueued[i]]
              /\ chan[2 * i] = [kind |-> "object", event |-> "end", uri |-> enqueued[i]] )

\* C3: the published lifecycle events are strictly paired: the k-th "play"
\* is for the k-th URI passed to Player.play, every "end" directly follows
\* the "play" of the same URI (so never precedes it and never repeats), and
\* once a playback was seen to complete and its end was published, there is
\* exactly one "play" and one "end" per completed playback.
C3_EventPairing ==
    /\ Len(chan) <= 2 * Len(played)
    /\ \A i \in 1..Len(chan) :
          IF i % 2 = 1
          THEN chan[i] = [kind |-> "object", event |-> "play", uri |-> played[(i + 1) \div 2]]
          ELSE chan[i] = [kind |-> "object", event |-> "end", uri |-> played[i \div 2]]
    /\ \A i \in 1..Len(chan) :
          CountEvent(SubSeq(chan, 1, i), "end") <= CountEvent(SubSeq(chan, 1, i), "play")
    /\ qwPc \in {"sleep", "check", "pop", "play"} =>
          /\ CountEvent(chan, "play") = Len(waitObserved)
          /\ CountEvent(chan, "end") = Len(waitObserved)

C3_Witness ==
    /\ Len(chan) = 4
    /\ qwPc = "sleep"

\* C4: every return of STOP_EVENT.wait() saw the flag as set by the
\* end-of-track callback of the track popped in that same iteration, and
\* queue_watcher has popped at most one item more than it has seen complete.
C4_PopOnlyAfterOwnCompletion ==
    /\ \A i \in 1..Len(waitObserved) : waitObserved[i] = i
    /\ Len(enqueued) - Len(queue) <= Len(waitObserved) + 1

C4_Witness ==
    /\ Len(waitObserved) = 1
    /\ Len(enqueued) - Len(queue) = 2
    /\ qwPc = "wait"

\* C5: Player.play is invoked by queue_watcher only while
\* session.player.state is UNLOADED (idle).
C5_PlayInvokedOnlyWhenIdle ==
    qwPc = "play" => state = "UNLOADED"

\* C6: an error raised by the backend inside Player.play does not end
\* queue_watcher.
C6_PlayErrorDoesNotEndLoop ==
    failStage # "none" => qwPc # "crashed"

\* C7: once the Player.play call for a popped URI is over, whether it
\* succeeded or failed, a "play" event for that URI has been or is being
\* published: outside the call and the publish statement, there are as many
\* "play" events as calls.
C7_PlayEventForEveryPop ==
    qwPc \notin {"play_load", "play_play", "play_clear", "publish_play"} =>
        CountEvent(chan, "play") = Len(played)

C9_PauseAndResumeTakeEffect ==
    [][ /\ (ewPc = "pause" /\ ewPc' # "pause" /\ state = "PLAYING") => ewPc' = "pause_act"
        /\ (ewPc = "pause_act" /\ ewPc' # "pause_act") =>
              (state' = "PAUSED" /\ ctlRequest' = "pause" /\ ~libPlaying' /\ chan' = chan)
        /\ (ewPc = "resume" /\ ewPc' # "resume" /\ state = "PAUSED") => ewPc' = "resume_act"
        /\ (ewPc = "resume_act" /\ ewPc' # "resume_act") =>
              (state' = "PLAYING" /\ ctlRequest' = "play" /\ chan' = chan) ]_vars

C9_Witness ==
    /\ ctlRequest = "play"
    /\ state = "PLAYING"
    /\ libPlaying
    /\ ewPc = "listen"

\* C10: Player.pause called while the state is not PLAYING, and
\* Player.resume called while the state is not PAUSED, return without a
\* backend request and leave the playback state, the engine and both events
\* unchanged (so repeating the call changes nothing either).
C10_PauseAndResumeNoOp ==
    [][ /\ (ewPc = "pause" /\ ewPc' # "pause" /\ state # "PLAYING") =>
              /\ ewPc' = "listen"
              /\ ctlRequest' = "noop"
              /\ UNCHANGED << state, libTrack, libPlaying, stopEvent, loggedIn, chan >>
        /\ (ewPc = "resume" /\ ewPc' # "resume" /\ state # "PAUSED") =>
              /\ ewPc' = "listen"
              /\ ctlRequest' = "noop"
              /\ UNCHANGED << state, libTrack, libPlaying, stopEvent, loggedIn, chan >> ]_vars

C10_Witness ==
    /\ ctlRequest = "noop"
    /\ ewPc = "listen"
    /\ state = "UNLOADED"

C12_MalformedMessageDoesNotEndWatcher ==
    [][ ( /\ ewPc = "listen"
          /\ Len(inbox') < Len(inbox)
          /\ Head(inbox).type = "message"
          /\ \/ Head(inbox).data.kind = "invalid"
             \/ (Head(inbox).data.kind = "object" /\ Head(inbox).data.event = "none") )
        => (ewPc' = "listen" /\ subscribed') ]_vars

\* C13: when event_watcher takes an envelope, it goes on to Player.pause or
\* Player.resume only if the envelope is a data message whose parsed "event"
\* is that very command; taking an envelope (of any kind) changes neither the
\* playback state, nor the engine, nor either event, and makes no backend
\* request. Player methods are entered in no other way.
C13_OnlyPauseAndResumeDispatch ==
    [][ /\ (ewPc = "listen" /\ Len(inbox') < Len(inbox)) =>
              /\ ewPc' \in {"pause", "resume"} =>
                    /\ Head(inbox).type = "message"
                    /\ Head(inbox).data.kind = "object"
                    /\ Head(inbox).data.event = ewPc'
              /\ ~(/\ Head(inbox).type = "message"
                   /\ Head(inbox).data.kind = "object"
                   /\ Head(inbox).data.event \in {"pause", "resume"}) =>
                    ewPc' \in {"listen", "crashed"}
              /\ UNCHANGED << state, libTrack, libPlaying, stopEvent, loggedIn, ctlRequest >>
        /\ (ewPc' \in {"pause", "resume"} /\ ewPc' # ewPc) => ewPc = "listen"
        /\ (ewPc' \in {"pause_act", "resume_act"} /\ ewPc' # ewPc) =>
              ewPc \in {"pause", "resume"} ]_vars

\* a resume command was taken from the channel while the track is paused
C13_Witness ==
    /\ ewPc = "resume"
    /\ state = "PAUSED"
    /\ libTrack # NoTrack

\* C14: nothing runs before LOGGED_IN_EVENT is set: Player.__init__ has
\* returned, a watcher has moved, a URI was popped or played, or a
\* Player.pause / Player.resume call was made only in states where the
\* latch is set; while it is not set the system is exactly as it started.
C14_NothingBeforeLogin ==
    /\ ( \/ mainPc = "running"
         \/ qwPc # "check"
         \/ ewPc # "subscribe"
         \/ played # << >>
         \/ queue # enqueued
         \/ chan # << >>
         \/ ctlRequest # "none"
         \/ state # "UNLOADED" ) => loggedIn
    /\ ~loggedIn =>
          /\ mainPc = "login_wait"
          /\ queue = enqueued
          /\ played = << >>
          /\ ~ENABLED QwCheck
          /\ ~ENABLED EwSubscribe

\* a track was played and a control command was handled, after the login
C14_Witness ==
    /\ loggedIn
    /\ played # << >>
    /\ ctlRequest = "pause"

\* C15: LOGGED_IN_EVENT starts clear, is never cleared once set, and is set
\* only by a connection-state callback that reports LOGGED_IN.
C15_LatchMonotonic ==
    /\ ~loggedIn
    /\ [][ /\ loggedIn => loggedIn'
           /\ (~loggedIn /\ loggedIn') => (connState' = "LOGGED_IN" /\ connState # "LOGGED_IN")
           /\ (connState' # connState /\ connState' # "LOGGED_IN") => loggedIn' = loggedIn ]_vars

\* the backend reported a later connection state and the latch stayed set
C15_Witness ==
    /\ loggedIn
    /\ connState = "LOGGED_OUT"
    /\ mainPc = "running"

\* C16: STOP_EVENT is cleared before the backend is asked to start the
\* popped track: in no state has playback of the track of the current
\* Player.play call started while the clear of that call is still to come.
C16_ClearedBeforePlaybackStarts ==
    ~( /\ qwPc = "play_clear"
       /\ libTrack = Len(played)
       /\ libPlaying )

\* C17: STOP_EVENT starts clear; the only step that sets it is the second
\* statement of on_track_of_end, which runs after that callback unloaded its
\* track (the unload makes the state UNLOADED and leaves the flag alone);
\* each track's callback sets it once, for a track later than every earlier
\* setter; no step of queue_watcher, event_watcher, Player.pause or
\* Player.resume sets it.
C17_SetOnlyByEndOfTrack ==
    /\ ~stopEvent
    /\ [][ /\ (~stopEvent /\ stopEvent') => (cbPc = "set" /\ cbPc' = "idle")
           /\ (cbPc = "set" /\ cbPc' = "idle") =>
                 /\ stopEvent'
                 /\ stopSetBy' = cbTrack
                 /\ cbTrack > stopSetBy
                 /\ libTrack # cbTrack
           /\ (cbPc = "idle" /\ cbPc' = "set") =>
                 /\ state' = "UNLOADED"
                 /\ libTrack' = NoTrack
                 /\ cbTrack' = libTrack
                 /\ stopEvent' = stopEvent
           /\ (qwPc' # qwPc \/ ewPc' # ewPc) => (stopEvent' => stopEvent) ]_vars

\* the flag is set for the second track, after it was set for the first
C17_Witness ==
    /\ stopEvent
    /\ stopSetBy = 2
    /\ state = "UNLOADED"

\* C18: between the state check of Player.pause and its backend pause
\* request the state is still PLAYING, and between the state check of
\* Player.resume and its backend play request it is still PAUSED.
C18_NoCheckThenActRace ==
    /\ ewPc = "pause_act" => state = "PLAYING"
    /\ ewPc = "resume_act" => state = "PAUSED"

\* C19: while the state is PAUSED and queue_watcher waits for the track,
\* STOP_EVENT is clear, so the wait cannot return.
C19_PausedKeepsConsumerBlocked ==
    (state = "PAUSED" /\ qwPc = "wait") => ~stopEvent

\* what does hold of a pause: while the engine still holds the paused track
\* and queue_watcher waits for it, STOP_EVENT is clear and no end-of-track
\* callback is running
PausedLoadedTrackKeepsConsumerBlocked ==
    (state = "PAUSED" /\ libTrack # NoTrack /\ qwPc = "wait") =>
        (~stopEvent /\ cbPc = "idle")

\* C20: every lifecycle event queue_watcher publishes while event_watcher is
\* subscribed is delivered to event_watcher, and taking a "play" or "end"
\* message leaves event_watcher in its loop without a Player call and
\* changes neither the playback state, the engine nor either event.
C20_NoFeedbackFromLifecycleEvents ==
    [][ /\ (chan' # chan /\ subscribed) =>
              inbox' = Append(inbox, Envelope("message", chan'[Len(chan')]))
        /\ ( /\ ewPc = "listen"
             /\ Len(inbox') < Len(inbox)
             /\ Head(inbox).type = "message"
             /\ Head(inbox).data.event \in {"play", "end"} ) =>
              /\ ewPc' = "listen"
              /\ subscribed'
              /\ UNCHANGED << state, libTrack, libPlaying, stopEvent, loggedIn, ctlRequest, chan >> ]_vars

\* event_watcher has taken the "play" event of a track and is about to take
\* its "end" event
C20_Witness ==
    /\ ewPc = "listen"
    /\ subscribed
    /\ Len(chan) = 2
    /\ inbox = << Envelope("message", chan[2]) >>
    /\ chan[2].event = "end"

====
